---- MODULE Spec2Model ----
(***************************************************************************)
(* A model of the incremental response pipeline of the editor/chat UI:     *)
(*   - APIService.streamChat, the async generator that reads an SSE body   *)
(*     chunk by chunk and yields the content of each data frame;           *)
(*   - DocumentEditor, the textarea whose input handler debounces the      *)
(*     ghost-suggestion request (handleInput, handleKeyDown);              *)
(*   - the persisted projects, documents and memories, as EditorWorkspace  *)
(*     and Dashboard read and write them.                                  *)
(* Text is a sequence of one-character strings, so that a chunk boundary   *)
(* can fall between any two bytes of the wire text.                        *)
(***************************************************************************)
EXTENDS Integers, Sequences, FiniteSets, TLC

VARIABLES
    \* ---- streamChat (one stream) ----
    frames,       \* the events the server sends on this stream, in order
    wireAll,      \* the whole byte text the transport delivers for this response
    wire,         \* the bytes not yet handed out by reader.read()
    response,     \* what fetch resolved with: "pending", "ok", "nobody", "failed"
    pc,           \* where the generator is suspended
    lines,        \* the lines of the current chunk the for loop has not visited yet
    emitted,      \* the values yielded so far, in order
    readerHeld,   \* the reader obtained by getReader() has not been released
    transport,    \* the body stream: "readable", "closed" (end of input), "errored"
    exit,         \* how the generator ended: "none", "eof", "sentinel", "error"
    sawSentinel,  \* history: the for loop has visited a line 'data: [DONE]'
    statusText,   \* response.statusText ("" while fetch is pending)
    thrown,       \* the message of the error that left the generator, <<>> for none
    pulledEnded   \* history: next() was called on the generator after it had ended

streamVars == <<frames, wireAll, wire, response, pc, lines, emitted, readerHeld, transport, exit,
               sawSentinel, statusText, thrown, pulledEnded>>

VARIABLES
    \* ---- DocumentEditor (one editing session) ----
    localContent,     \* useState(content): the text of the textarea
    cursor,           \* textarea.selectionStart, as the browser holds it
    ghostSuggestion,  \* useState<GhostSuggestion | null>
    isComposing,      \* useState(false)
    ghostTimeoutRef,  \* useRef<number | null>: 0 for null, else a timer id
    timers,           \* the pending timeouts set by handleInput: id -> closure
    requests,         \* the getGhostSuggestion calls not yet settled: id -> body
    inputs,           \* number of input events so far; the n-th sets timer id n
    calls,            \* number of getGhostSuggestion network calls issued
    fired,            \* number of timeout callbacks run so far
    cancelled,        \* history: Escape or an accepting Tab, and no input since
    delivered,        \* the answer and outcome of the call that settled in the
                      \* latest step, <<>> when the latest step settled none
    reported,         \* what the latest step wrote with console.error, <<>> for nothing
    key,              \* e.key of the keydown handled in the latest step, "" when the
                      \* latest step handled none
    onChange,         \* the content last passed to the onChange prop
    \* ---- EditorWorkspace and Dashboard (one user, one browser tab) ----
    projectsItem,     \* the list persisted under membrane_projects_<user.id>
    docItem,          \* the ids p with an item membrane_doc_<p>
    memoriesItem,     \* p -> the list persisted under membrane_memories_<p>
    route,            \* the page mounted: "dashboard" or "workspace"
    projects,         \* Dashboard: useState<Project[]>
    projectId,        \* EditorWorkspace: the project of the route, 0 for none
    memories,         \* EditorWorkspace: useState<string[]>
    addMemoryCall,    \* the addMemory call suspended at an await, or NULL
    autoStore,        \* the auto-store loop of a saveDocument call, or NULL
    created,          \* number of projects created so far
    deleting,         \* the id deleteProject is removing, 0 for none
    deleted,          \* history: the ids whose deleteProject call completed
    autoStoreDone     \* the loop the latest step completed, or NULL

editorVars == <<localContent, cursor, ghostSuggestion, isComposing, ghostTimeoutRef,
                timers, requests, inputs, calls, fired, cancelled, delivered,
                reported, key, onChange>>

storeVars == <<projectsItem, docItem, memoriesItem, route, projects, projectId,
               memories, addMemoryCall, autoStore, created, deleting, deleted,
               autoStoreDone>>

vars == <<streamVars, editorVars, storeVars>>

(***************************************************************************)
(* Bounds of the model.                                                    *)
(***************************************************************************)
MaxFrames == 2      \* frames (lines of the wire text) per stream
MaxInputs == 2      \* input events per editing session
MaxLen == 1         \* length of the text an input event leaves in the textarea
MaxProjects == 2    \* projects created
MaxMemories == 2    \* length of a project's list of memories
MaxParagraphs == 2  \* paragraphs one saveDocument call auto-stores

(***************************************************************************)
(* Text helpers.                                                           *)
(***************************************************************************)
NL == "\n"

\* The two bytes of one two-byte UTF-8 character, the character they decode to,
\* and U+FFFD, which TextDecoder substitutes for a malformed byte sequence.
LeadByte == "C3"
ContByte == "A9"
TwoByteChar == "E9"
Replacement == "FFFD"

\* 'data: '
DataPrefix == <<"d", "a", "t", "a", ":", " ">>
\* line.slice(6)
SliceFrom == 6
\* '[DONE]'
Sentinel == <<"[", "D", "O", "N", "E", "]">>

\* {"content":"  and  "}  : the only JSON object shape the consumer reads
ContentOpen == <<"{", "\"", "c", "o", "n", "t", "e", "n", "t", "\"", ":", "\"">>
ContentClose == <<"\"", "}">>
EmptyObject == <<"{", "}">>
BadJson == <<"{", "x">>
CommentLine == <<":", "k">>

StartsWith(s, p) ==
    /\ Len(s) >= Len(p)
    /\ SubSeq(s, 1, Len(p)) = p

EndsWith(s, p) ==
    /\ Len(s) >= Len(p)
    /\ SubSeq(s, Len(s) - Len(p) + 1, Len(s)) = p

Slice(s, n) == SubSeq(s, n + 1, Len(s))

RECURSIVE Flatten(_)
Flatten(ss) == IF ss = <<>> THEN <<>> ELSE Head(ss) \o Flatten(Tail(ss))

\* new TextDecoder().decode(value): every call decodes its bytes alone (no
\* {stream: true}), so a lead byte at the end of a chunk and a continuation byte
\* at the start of the next each decode to U+FFFD. The bytes are decoded by
\* halves, a lead byte and its continuation byte staying in the same half.
RECURSIVE Decode(_)
Decode(bytes) ==
    IF Len(bytes) = 0 THEN <<>>
    ELSE IF Len(bytes) = 1
         THEN IF bytes[1] \in {LeadByte, ContByte} THEN <<Replacement>> ELSE bytes
    ELSE IF Len(bytes) = 2 /\ bytes[1] = LeadByte /\ bytes[2] = ContByte
         THEN <<TwoByteChar>>
    ELSE LET half == Len(bytes) \div 2
             cut == IF bytes[half] = LeadByte /\ bytes[half + 1] = ContByte
                    THEN half + 1
                    ELSE half
         IN Decode(SubSeq(bytes, 1, cut)) \o Decode(SubSeq(bytes, cut + 1, Len(bytes)))

\* chunk.split('\n'): always at least one element
RECURSIVE SplitLines(_)
SplitLines(s) ==
    IF \A i \in 1..Len(s) : s[i] # NL
    THEN <<s>>
    ELSE LET i == CHOOSE j \in 1..Len(s) :
                      /\ s[j] = NL
                      /\ \A k \in 1..(j - 1) : s[k] # NL
         IN <<SubSeq(s, 1, i - 1)>> \o SplitLines(SubSeq(s, i + 1, Len(s)))

\* JSON.parse(data) followed by the read of parsed.content, on the payloads a
\* stream of this model carries and on every prefix of them: an object with the
\* one string member "content", the empty object, and anything else is a
\* SyntaxError. ok = FALSE stands for the throw.
JSONParse(data) ==
    IF /\ StartsWith(data, ContentOpen)
       /\ EndsWith(data, ContentClose)
       /\ Len(data) >= Len(ContentOpen) + Len(ContentClose)
       /\ \A i \in (Len(ContentOpen) + 1)..(Len(data) - Len(ContentClose)) :
              data[i] \notin {"\"", "\\"}
    THEN [ok |-> TRUE,
          content |-> SubSeq(data, Len(ContentOpen) + 1, Len(data) - Len(ContentClose))]
    ELSE IF data = EmptyObject
         THEN [ok |-> TRUE, content |-> <<>>]
         ELSE [ok |-> FALSE, content |-> <<>>]

(***************************************************************************)
(* The wire text of a stream.                                              *)
(***************************************************************************)
FrameKinds == {"A", "E", "done", "bad", "empty", "nocontent", "comment"}

Payload(kind) ==
    CASE kind = "A" -> ContentOpen \o <<"A">> \o ContentClose
      [] kind = "E" -> ContentOpen \o <<LeadByte, ContByte>> \o ContentClose
      [] kind = "done" -> Sentinel
      [] kind = "bad" -> BadJson
      [] kind = "empty" -> ContentOpen \o ContentClose
      [] kind = "nocontent" -> EmptyObject

\* one server-sent event: its line and the blank line that ends it
FrameText(kind) ==
    IF kind = "comment"
    THEN CommentLine \o <<NL, NL>>
    ELSE DataPrefix \o Payload(kind) \o <<NL, NL>>

RECURSIVE Encode(_)
Encode(fs) ==
    IF fs = <<>> THEN <<>> ELSE FrameText(Head(fs)) \o Encode(Tail(fs))

FrameLists == UNION {[1..n -> FrameKinds] : n \in 0..MaxFrames}

\* The text the server generated: the content of every content frame, in wire
\* order, up to the sentinel frame.
RECURSIVE GeneratedText(_)
GeneratedText(fs) ==
    IF fs = <<>> \/ Head(fs) = "done" THEN <<>>
    ELSE (CASE Head(fs) = "A" -> <<"A">>
            [] Head(fs) = "E" -> <<TwoByteChar>>
            [] OTHER -> <<>>) \o GeneratedText(Tail(fs))

(***************************************************************************)
(* streamChat.                                                             *)
(***************************************************************************)
\* ForLines without the return at the sentinel: the sentinel payload goes to
\* JSON.parse like any other and the loop goes on.
RECURSIVE ForLinesPastSentinel(_)
ForLinesPastSentinel(ls) ==
    IF ls = <<>>
    THEN [kind |-> "exhausted", value |-> <<>>, rest |-> <<>>]
    ELSE LET line == Head(ls) IN
         IF StartsWith(line, DataPrefix)
         THEN LET parsed == JSONParse(Slice(line, SliceFrom)) IN
              IF parsed.ok /\ parsed.content # <<>>
              THEN [kind |-> "yield", value |-> parsed.content, rest |-> Tail(ls)]
              ELSE ForLinesPastSentinel(Tail(ls))
         ELSE ForLinesPastSentinel(Tail(ls))

\* ForLines with the try around the whole for loop instead of around
\* JSON.parse: a payload that does not parse abandons the rest of the chunk.
RECURSIVE ForLinesTryAroundLoop(_)
ForLinesTryAroundLoop(ls) ==
    IF ls = <<>>
    THEN [kind |-> "exhausted", value |-> <<>>, rest |-> <<>>]
    ELSE LET line == Head(ls) IN
         IF StartsWith(line, DataPrefix)
         THEN LET data == Slice(line, SliceFrom) IN
              IF data = Sentinel
              THEN [kind |-> "return", value |-> <<>>, rest |-> Tail(ls)]
              ELSE LET parsed == JSONParse(data) IN
                   IF ~parsed.ok
                   THEN [kind |-> "exhausted", value |-> <<>>, rest |-> <<>>]
                   ELSE IF parsed.content # <<>>
                        THEN [kind |-> "yield", value |-> parsed.content,
                              rest |-> Tail(ls)]
                        ELSE ForLinesTryAroundLoop(Tail(ls))
         ELSE ForLinesTryAroundLoop(Tail(ls))

\* ForLines leaving the for loop at the first line without the data prefix
\* (a break where the code has nothing)
RECURSIVE ForLinesBreakOnOther(_)
ForLinesBreakOnOther(ls) ==
    IF ls = <<>>
    THEN [kind |-> "exhausted", value |-> <<>>, rest |-> <<>>]
    ELSE LET line == Head(ls) IN
         IF StartsWith(line, DataPrefix)
         THEN LET data == Slice(line, SliceFrom) IN
              IF data = Sentinel
              THEN [kind |-> "return", value |-> <<>>, rest |-> Tail(ls)]
              ELSE LET parsed == JSONParse(data) IN
                   IF parsed.ok /\ parsed.content # <<>>
                   THEN [kind |-> "yield", value |-> parsed.content, rest |-> Tail(ls)]
                   ELSE ForLinesBreakOnOther(Tail(ls))
         ELSE [kind |-> "exhausted", value |-> <<>>, rest |-> <<>>]

\* ForLines yielding parsed.content without testing it: an absent or empty
\* content is yielded as an empty value
RECURSIVE ForLinesYieldsUntested(_)
ForLinesYieldsUntested(ls) ==
    IF ls = <<>>
    THEN [kind |-> "exhausted", value |-> <<>>, rest |-> <<>>]
    ELSE LET line == Head(ls) IN
         IF StartsWith(line, DataPrefix)
         THEN LET data == Slice(line, SliceFrom) IN
              IF data = Sentinel
              THEN [kind |-> "return", value |-> <<>>, rest |-> Tail(ls)]
              ELSE LET parsed == JSONParse(data) IN
                   IF parsed.ok
                   THEN [kind |-> "yield", value |-> parsed.content, rest |-> Tail(ls)]
                   ELSE ForLinesYieldsUntested(Tail(ls))
         ELSE ForLinesYieldsUntested(Tail(ls))

\* The for loop over the lines of a chunk, run from `ls` to its next suspension:
\* a yield, the return at the sentinel, or the end of the lines.
RECURSIVE ForLines(_)
ForLines(ls) ==
    IF ls = <<>>
    THEN [kind |-> "exhausted", value |-> <<>>, rest |-> <<>>]
    ELSE LET line == Head(ls) IN
         IF StartsWith(line, DataPrefix)
         THEN LET data == Slice(line, SliceFrom) IN
              IF data = Sentinel
              THEN [kind |-> "return", value |-> <<>>, rest |-> Tail(ls)]
              ELSE LET parsed == JSONParse(data) IN
                   IF parsed.ok /\ parsed.content # <<>>
                   THEN [kind |-> "yield", value |-> parsed.content, rest |-> Tail(ls)]
                   ELSE ForLines(Tail(ls))
         ELSE ForLines(Tail(ls))

SentinelLine == DataPrefix \o Sentinel

\* The generator runs the for loop over `ls` to where it suspends next. The
\* loop has visited the lines of `ls` that are not in the rest it left.
Suspend(ls) ==
    LET r == ForLines(ls) IN
    /\ pc' = CASE r.kind = "yield" -> "yielded"
               [] r.kind = "return" -> "done"
               [] r.kind = "exhausted" -> "read"
    /\ exit' = IF r.kind = "return" THEN "sentinel" ELSE exit
    /\ emitted' = IF r.kind = "yield" THEN Append(emitted, r.value) ELSE emitted
    /\ lines' = IF r.kind = "yield" THEN r.rest ELSE <<>>
    /\ sawSentinel' = (sawSentinel \/ \E i \in 1..(Len(ls) - Len(r.rest)) :
                                          ls[i] = SentinelLine)

StreamInit ==
    /\ frames \in FrameLists
    /\ wireAll = Encode(frames)
    /\ wire = wireAll
    /\ response = "pending"
    /\ pc = "fetch"
    /\ lines = <<>>
    /\ emitted = <<>>
    /\ readerHeld = FALSE
    /\ transport = "readable"
    /\ exit = "none"
    /\ sawSentinel = FALSE
    /\ statusText = ""
    /\ thrown = <<>>
    /\ pulledEnded = FALSE

\* the rejection reason of a failed reader.read()
ReadRejection == <<"TypeError: network error">>

\* response.statusText of a response whose ok is false ("" over HTTP/2)
StatusTexts == {"Unauthorized", "Internal Server Error", ""}

\* a status check that never throws: the body is read whatever the status
FetchResolvesNoStatusCheck(res, text) ==
    /\ pc = "fetch"
    /\ response' = res
    /\ statusText' = text
    /\ IF res = "nobody"
       THEN /\ pc' = "error"
            /\ exit' = "error"
            /\ thrown' = <<"No reader available">>
            /\ UNCHANGED readerHeld
       ELSE /\ pc' = "read"
            /\ readerHeld' = TRUE
            /\ UNCHANGED <<exit, thrown>>
    /\ UNCHANGED editorVars
    /\ UNCHANGED storeVars
    /\ UNCHANGED pulledEnded
    /\ UNCHANGED <<frames, wireAll, wire, lines, emitted, transport, sawSentinel>>

\* a reader check that never throws: read() is called on the missing reader
\* and the TypeError of that call leaves the generator
FetchResolvesNoReaderCheck(res, text) ==
    /\ pc = "fetch"
    /\ response' = res
    /\ statusText' = text
    /\ IF res = "failed"
       THEN /\ pc' = "error"
            /\ exit' = "error"
            /\ thrown' = <<"Stream error: ", text>>
            /\ UNCHANGED readerHeld
       ELSE IF res = "nobody"
            THEN /\ pc' = "error"
                 /\ exit' = "error"
                 /\ thrown' = <<"TypeError: reader is undefined">>
                 /\ UNCHANGED readerHeld
            ELSE /\ pc' = "read"
                 /\ readerHeld' = TRUE
                 /\ UNCHANGED <<exit, thrown>>
    /\ UNCHANGED editorVars
    /\ UNCHANGED storeVars
    /\ UNCHANGED pulledEnded
    /\ UNCHANGED <<frames, wireAll, wire, lines, emitted, transport, sawSentinel>>

\* await fetch(...) resolves with a response of status text `text`; the status
\* check, getReader() and the reader check. res is "failed" for a response whose
\* ok is false, "nobody" for one whose body is null, "ok" otherwise.
FetchResolves(res, text) ==
    /\ pc = "fetch"
    /\ response' = res
    /\ statusText' = text
    /\ IF res = "failed"
       THEN /\ pc' = "error"
            /\ exit' = "error"
            /\ thrown' = <<"Stream error: ", text>>
            /\ UNCHANGED readerHeld
       ELSE IF res = "nobody"
            THEN /\ pc' = "error"
                 /\ exit' = "error"
                 /\ thrown' = <<"No reader available">>
                 /\ UNCHANGED readerHeld
            ELSE /\ pc' = "read"
                 /\ readerHeld' = TRUE
                 /\ UNCHANGED <<exit, thrown>>
    /\ UNCHANGED editorVars
    /\ UNCHANGED storeVars
    /\ UNCHANGED pulledEnded
    /\ UNCHANGED <<frames, wireAll, wire, lines, emitted, transport, sawSentinel>>

\* await reader.read() resolves with a chunk of the next k bytes
ReadChunk(k) ==
    /\ pc = "read"
    /\ k <= Len(wire)
    /\ wire' = SubSeq(wire, k + 1, Len(wire))
    /\ LET chunk == Decode(SubSeq(wire, 1, k)) IN
       Suspend(SplitLines(chunk))
    /\ UNCHANGED editorVars
    /\ UNCHANGED storeVars
    /\ UNCHANGED pulledEnded
    /\ UNCHANGED <<frames, wireAll, response, readerHeld, transport, statusText, thrown>>

\* end of input taken for a failure when no sentinel came before it
ReadDoneThrows ==
    /\ pc = "read"
    /\ wire = <<>>
    /\ pc' = "error"
    /\ exit' = "error"
    /\ transport' = "closed"
    /\ thrown' = <<"Stream ended without [DONE]">>
    /\ UNCHANGED editorVars
    /\ UNCHANGED storeVars
    /\ UNCHANGED pulledEnded
    /\ UNCHANGED <<frames, wireAll, wire, response, lines, emitted, readerHeld, sawSentinel,
                   statusText>>

\* await reader.read() resolves with done: break
ReadDone ==
    /\ pc = "read"
    /\ wire = <<>>
    /\ pc' = "done"
    /\ exit' = "eof"
    /\ transport' = "closed"
    /\ UNCHANGED editorVars
    /\ UNCHANGED storeVars
    /\ UNCHANGED pulledEnded
    /\ UNCHANGED <<frames, wireAll, wire, response, lines, emitted, readerHeld, sawSentinel,
                   statusText, thrown>>

\* a rejected read caught and taken for the end of the stream
ReadErrorSwallowed ==
    /\ pc = "read"
    /\ pc' = "done"
    /\ exit' = "eof"
    /\ transport' = "errored"
    /\ UNCHANGED editorVars
    /\ UNCHANGED storeVars
    /\ UNCHANGED pulledEnded
    /\ UNCHANGED <<frames, wireAll, wire, response, lines, emitted, readerHeld, sawSentinel,
                   statusText, thrown>>

\* await reader.read() rejects: the rejection leaves the generator as it is
ReadError ==
    /\ pc = "read"
    /\ pc' = "error"
    /\ exit' = "error"
    /\ transport' = "errored"
    /\ thrown' = ReadRejection
    /\ UNCHANGED editorVars
    /\ UNCHANGED storeVars
    /\ UNCHANGED pulledEnded
    /\ UNCHANGED <<frames, wireAll, wire, response, lines, emitted, readerHeld, sawSentinel,
                   statusText>>

\* the consumer asks for the next value after a yield: the for loop goes on
Pull ==
    /\ pc = "yielded"
    /\ Suspend(lines)
    /\ UNCHANGED editorVars
    /\ UNCHANGED storeVars
    /\ UNCHANGED pulledEnded
    /\ UNCHANGED <<frames, wireAll, wire, response, readerHeld, transport, statusText,
                   thrown>>

\* a sequence that starts over when pulled after its end: the request is
\* issued again and the body read from its first byte
PullEndedRestarts ==
    /\ pc \in {"done", "error"}
    /\ pulledEnded' = TRUE
    /\ pc' = "fetch"
    /\ response' = "pending"
    /\ wire' = wireAll
    /\ transport' = "readable"
    /\ UNCHANGED <<frames, wireAll, lines, emitted, readerHeld, exit, sawSentinel,
                   statusText, thrown>>
    /\ UNCHANGED editorVars
    /\ UNCHANGED storeVars

\* next() on a generator that has returned or thrown: { done: true }, no code runs
PullEnded ==
    /\ pc \in {"done", "error"}
    /\ pulledEnded' = TRUE
    /\ UNCHANGED <<frames, wireAll, wire, response, pc, lines, emitted, readerHeld,
                   transport, exit, sawSentinel, statusText, thrown>>
    /\ UNCHANGED editorVars
    /\ UNCHANGED storeVars

StreamNext ==
    \/ \E res \in {"ok", "nobody"} : FetchResolves(res, "OK")
    \/ \E text \in StatusTexts : FetchResolves("failed", text)
    \/ \E k \in 0..Len(wire) : ReadChunk(k)
    \/ ReadDone
    \/ ReadError
    \/ Pull
    \/ PullEnded

(***************************************************************************)
(* DocumentEditor.                                                         *)
(***************************************************************************)
\* null, and a value that is not null, of a nullable state or result
NULL == <<>>
Some(x) == <<x>>

Alphabet == {"a", "b"}

\* the values e.target.value can take at an input event: the texts of a's of
\* every length, and the texts of one letter, which differ from one another by
\* the letter only (the code reads a text's length and passes the text on)
Contents ==
    {t \in UNION {[1..n -> Alphabet] : n \in 0..MaxLen} :
        Len(t) > 1 => \A i \in 1..Len(t) : t[i] = "a"}

Whitespace == {" ", NL}

\* what the ghost-suggest endpoint can answer in data.suggestion: nothing, the
\* empty string, blanks only, a text
Suggestions == {NULL, Some(<<>>), Some(<<" ">>), Some(<<"x">>)}

\* String.prototype.trim
RECURSIVE TrimLeft(_)
TrimLeft(s) ==
    IF s # <<>> /\ Head(s) \in Whitespace THEN TrimLeft(Tail(s)) ELSE s

RECURSIVE TrimRight(_)
TrimRight(s) ==
    IF s # <<>> /\ s[Len(s)] \in Whitespace
    THEN TrimRight(SubSeq(s, 1, Len(s) - 1))
    ELSE s

Trim(s) == TrimRight(TrimLeft(s))

\* a string in a condition: undefined and the empty string are false
Truthy(s) == s # NULL /\ s[1] # <<>>

\* a clearTimeout that drops nothing
ClearTimeoutKeeps(ts, id) == ts

\* clearTimeout(id): a pending timeout of that id is dropped, any other id is
\* ignored
ClearTimeout(ts, id) == [t \in DOMAIN ts \ {id} |-> ts[t]]

\* generateGhostSuggestion testing `if (suggestion)` alone, without the trim
GenerateGhostSuggestionNoTrim(cursorPosition, answer, failed) ==
    IF failed
    THEN NULL
    ELSE IF Truthy(answer)
         THEN Some([text |-> answer[1], position |-> cursorPosition])
         ELSE NULL

\* what generateGhostSuggestion resolves to: the suggestion object, or null
\* when the call failed or answered nothing usable
GenerateGhostSuggestion(cursorPosition, answer, failed) ==
    IF failed
    THEN NULL
    ELSE IF Truthy(answer) /\ Truthy(Some(Trim(answer[1])))
         THEN Some([text |-> answer[1], position |-> cursorPosition])
         ELSE NULL

EditorInit ==
    /\ localContent = <<>>
    /\ cursor = 0
    /\ ghostSuggestion = NULL
    /\ isComposing = FALSE
    /\ ghostTimeoutRef = 0
    /\ timers = <<>>
    /\ requests = <<>>
    /\ inputs = 0
    /\ calls = 0
    /\ fired = 0
    /\ cancelled = FALSE
    /\ delivered = <<>>
    /\ reported = <<>>
    /\ key = ""
    /\ onChange = <<>>

\* an input event that sets its timer whether or not a composition is going on
HandleInputIgnoresComposing(newContent, cur) ==
    /\ inputs < MaxInputs
    /\ newContent # localContent
    /\ inputs' = inputs + 1
    /\ localContent' = newContent
    /\ cursor' = cur
    /\ ghostSuggestion' = NULL
    /\ LET cleared == IF ghostTimeoutRef # 0
                      THEN ClearTimeout(timers, ghostTimeoutRef)
                      ELSE timers
       IN /\ timers' = [t \in DOMAIN cleared \cup {inputs'} |->
                           IF t = inputs'
                           THEN [newContent |-> newContent, cursorAtInput |-> cur]
                           ELSE cleared[t]]
          /\ ghostTimeoutRef' = inputs'
    /\ cancelled' = FALSE
    /\ UNCHANGED <<isComposing, requests, calls, fired>>
    /\ delivered' = <<>>
    /\ reported' = <<>>
    /\ key' = ""
    /\ onChange' = newContent
    /\ UNCHANGED streamVars
    /\ UNCHANGED storeVars

\* handleInput: the textarea's change event, value newContent, caret at cur
\* (React raises onChange only when the value has changed)
HandleInput(newContent, cur) ==
    /\ inputs < MaxInputs
    /\ newContent # localContent
    /\ inputs' = inputs + 1
    /\ localContent' = newContent
    /\ cursor' = cur
    /\ ghostSuggestion' = NULL
    /\ LET cleared == IF ghostTimeoutRef # 0
                      THEN ClearTimeout(timers, ghostTimeoutRef)
                      ELSE timers
       IN IF ~isComposing
          THEN /\ timers' = [t \in DOMAIN cleared \cup {inputs'} |->
                                IF t = inputs'
                                THEN [newContent |-> newContent, cursorAtInput |-> cur]
                                ELSE cleared[t]]
               /\ ghostTimeoutRef' = inputs'
          ELSE /\ timers' = cleared
               /\ UNCHANGED ghostTimeoutRef
    /\ cancelled' = FALSE
    /\ UNCHANGED <<isComposing, requests, calls, fired>>
    /\ delivered' = <<>>
    /\ reported' = <<>>
    /\ key' = ""
    /\ onChange' = newContent
    /\ UNCHANGED streamVars
    /\ UNCHANGED storeVars

\* a timeout callback that issues its call twice
TimerFiresCallsTwice(id) ==
    /\ id \in DOMAIN timers
    /\ timers' = [t \in DOMAIN timers \ {id} |-> timers[t]]
    /\ requests' = [r \in DOMAIN requests \cup {id} |->
                        IF r = id
                        THEN [text |-> timers[id].newContent, cursorPosition |-> cursor]
                        ELSE requests[r]]
    /\ calls' = calls + 2
    /\ fired' = fired + 1
    /\ UNCHANGED <<localContent, cursor, ghostSuggestion, isComposing,
                   ghostTimeoutRef, inputs, cancelled>>
    /\ delivered' = <<>>
    /\ reported' = <<>>
    /\ key' = ""
    /\ UNCHANGED onChange
    /\ UNCHANGED streamVars
    /\ UNCHANGED storeVars

\* the timeout callback up to its await: the caret is read now, the text is
\* the one the input event carried, and the network call is issued
TimerFires(id) ==
    /\ id \in DOMAIN timers
    /\ timers' = [t \in DOMAIN timers \ {id} |-> timers[t]]
    /\ requests' = [r \in DOMAIN requests \cup {id} |->
                        IF r = id
                        THEN [text |-> timers[id].newContent, cursorPosition |-> cursor]
                        ELSE requests[r]]
    /\ calls' = calls + 1
    /\ fired' = fired + 1
    /\ UNCHANGED <<localContent, cursor, ghostSuggestion, isComposing,
                   ghostTimeoutRef, inputs, cancelled>>
    /\ delivered' = <<>>
    /\ reported' = <<>>
    /\ key' = ""
    /\ UNCHANGED onChange
    /\ UNCHANGED streamVars
    /\ UNCHANGED storeVars

\* how a getGhostSuggestion call can end: with an answer ("ok"), with fetch
\* rejecting ("network"), with a response whose ok is false ("status"), with
\* response.json() rejecting ("parse")
Outcomes == {"ok", "network", "status", "parse"}

\* fetchAPI throws when fetch rejects and when the status is not a success
FetchAPIThrows(outcome) == outcome \in {"network", "status"}

\* getGhostSuggestion throws when fetchAPI does and when the body is not JSON
GetGhostSuggestionThrows(outcome) == FetchAPIThrows(outcome) \/ outcome = "parse"

\* a failed call waited for again instead of being given up
RequestSettlesWaitsOn(id, answer, outcome) ==
    /\ id \in DOMAIN requests
    /\ LET newContent == requests[id].text
           cursorPos == requests[id].cursorPosition
           suggestion == GenerateGhostSuggestion(cursorPos, answer,
                                                 GetGhostSuggestionThrows(outcome))
       IN ghostSuggestion' = IF suggestion # NULL /\ cursorPos = Len(newContent)
                             THEN suggestion
                             ELSE ghostSuggestion
    /\ requests' = IF GetGhostSuggestionThrows(outcome)
                   THEN requests
                   ELSE [r \in DOMAIN requests \ {id} |-> requests[r]]
    /\ delivered' = Some([answer |-> answer, outcome |-> outcome])
    /\ reported' = IF GetGhostSuggestionThrows(outcome)
                   THEN <<"Ghost suggestion error:">>
                   ELSE <<>>
    /\ UNCHANGED <<localContent, cursor, isComposing, ghostTimeoutRef, timers,
                   inputs, calls, fired, cancelled>>
    /\ key' = ""
    /\ UNCHANGED onChange
    /\ UNCHANGED streamVars
    /\ UNCHANGED storeVars

\* a failed call issued again by the callback
RequestSettlesRetries(id, answer, outcome) ==
    /\ id \in DOMAIN requests
    /\ LET newContent == requests[id].text
           cursorPos == requests[id].cursorPosition
           suggestion == GenerateGhostSuggestion(cursorPos, answer,
                                                 GetGhostSuggestionThrows(outcome))
       IN ghostSuggestion' = IF suggestion # NULL /\ cursorPos = Len(newContent)
                             THEN suggestion
                             ELSE ghostSuggestion
    /\ IF GetGhostSuggestionThrows(outcome) /\ calls < MaxInputs + 1
       THEN /\ requests' = requests
            /\ calls' = calls + 1
       ELSE /\ requests' = [r \in DOMAIN requests \ {id} |-> requests[r]]
            /\ calls' = calls
    /\ UNCHANGED fired
    /\ delivered' = Some([answer |-> answer, outcome |-> outcome])
    /\ reported' = IF GetGhostSuggestionThrows(outcome)
                   THEN <<"Ghost suggestion error:">>
                   ELSE <<>>
    /\ UNCHANGED <<localContent, cursor, isComposing, ghostTimeoutRef, timers,
                   inputs, cancelled>>
    /\ key' = ""
    /\ UNCHANGED onChange
    /\ UNCHANGED streamVars
    /\ UNCHANGED storeVars

\* the call settles (with the answer, or by throwing) and the callback goes on
\* after its await; the catch of generateGhostSuggestion logs what was thrown
RequestSettles(id, answer, outcome) ==
    /\ id \in DOMAIN requests
    /\ LET newContent == requests[id].text
           cursorPos == requests[id].cursorPosition
           suggestion == GenerateGhostSuggestion(cursorPos, answer,
                                                 GetGhostSuggestionThrows(outcome))
       IN ghostSuggestion' = IF suggestion # NULL /\ cursorPos = Len(newContent)
                             THEN suggestion
                             ELSE ghostSuggestion
    /\ requests' = [r \in DOMAIN requests \ {id} |-> requests[r]]
    /\ delivered' = Some([answer |-> answer, outcome |-> outcome])
    /\ reported' = IF GetGhostSuggestionThrows(outcome)
                   THEN <<"Ghost suggestion error:">>
                   ELSE <<>>
    /\ UNCHANGED <<localContent, cursor, isComposing, ghostTimeoutRef, timers,
                   inputs, calls, fired, cancelled>>
    /\ key' = ""
    /\ UNCHANGED onChange
    /\ UNCHANGED streamVars
    /\ UNCHANGED storeVars

\* an acceptance that sets the text without passing it to onChange
KeyTabSilent ==
    /\ IF ghostSuggestion # NULL
       THEN /\ localContent' = localContent \o ghostSuggestion[1].text
            /\ cursor' = Len(localContent')
            /\ ghostSuggestion' = NULL
            /\ cancelled' = TRUE
       ELSE UNCHANGED <<localContent, cursor, ghostSuggestion, cancelled>>
    /\ UNCHANGED <<isComposing, ghostTimeoutRef, timers, requests, inputs, calls, fired, onChange>>
    /\ delivered' = <<>>
    /\ reported' = <<>>
    /\ key' = "Tab"
    /\ UNCHANGED streamVars
    /\ UNCHANGED storeVars

\* handleKeyDown with e.key = 'Tab'; the caret is moved to the end of the text
KeyTab ==
    /\ IF ghostSuggestion # NULL
       THEN /\ localContent' = localContent \o ghostSuggestion[1].text
            /\ onChange' = localContent'
            /\ cursor' = Len(localContent')
            /\ ghostSuggestion' = NULL
            /\ cancelled' = TRUE
       ELSE UNCHANGED <<localContent, onChange, cursor, ghostSuggestion, cancelled>>
    /\ UNCHANGED <<isComposing, ghostTimeoutRef, timers, requests, inputs, calls, fired>>
    /\ delivered' = <<>>
    /\ reported' = <<>>
    /\ key' = "Tab"
    /\ UNCHANGED streamVars
    /\ UNCHANGED storeVars

\* handleKeyDown with e.key = 'Escape'
KeyEscape ==
    /\ ghostSuggestion' = NULL
    /\ cancelled' = TRUE
    /\ UNCHANGED <<localContent, cursor, isComposing, ghostTimeoutRef, timers,
                   requests, inputs, calls, fired>>
    /\ delivered' = <<>>
    /\ reported' = <<>>
    /\ key' = "Escape"
    /\ UNCHANGED onChange
    /\ UNCHANGED streamVars
    /\ UNCHANGED storeVars

\* onCompositionStart, onCompositionEnd
SetComposing(b) ==
    /\ isComposing # b
    /\ isComposing' = b
    /\ UNCHANGED <<localContent, cursor, ghostSuggestion, ghostTimeoutRef, timers,
                   requests, inputs, calls, fired, cancelled>>
    /\ delivered' = <<>>
    /\ reported' = <<>>
    /\ key' = ""
    /\ UNCHANGED onChange
    /\ UNCHANGED streamVars
    /\ UNCHANGED storeVars

\* the user moves the caret (click, arrow key): no input event
MoveCursor(c) ==
    /\ c # cursor
    /\ cursor' = c
    /\ UNCHANGED <<localContent, ghostSuggestion, isComposing, ghostTimeoutRef,
                   timers, requests, inputs, calls, fired, cancelled>>
    /\ delivered' = <<>>
    /\ reported' = <<>>
    /\ key' = ""
    /\ UNCHANGED onChange
    /\ UNCHANGED streamVars
    /\ UNCHANGED storeVars

EditorNext ==
    \/ \E newContent \in Contents : \E cur \in 0..Len(newContent) :
           HandleInput(newContent, cur)
    \/ \E id \in DOMAIN timers : TimerFires(id)
    \/ \E id \in DOMAIN requests : \E answer \in Suggestions :
           RequestSettles(id, answer, "ok")
    \/ \E id \in DOMAIN requests : \E outcome \in Outcomes \ {"ok"} :
           RequestSettles(id, NULL, outcome)
    \/ KeyTab
    \/ KeyEscape
    \/ \E b \in BOOLEAN : SetComposing(b)
    \/ \E c \in 0..Len(localContent) : MoveCursor(c)

(***************************************************************************)
(* EditorWorkspace and Dashboard: the persisted projects and memories.     *)
(***************************************************************************)
\* Texts are numbered: 0 is the text the user stores as a memory, i > 0 is the
\* i-th of the paragraphs of the document that are long enough to be stored.
MemoryTexts == {0}

\* the lists of paragraphs a saveDocument call finds to auto-store: none when
\* the word count is not just past a multiple of 500, else the last ones
RecentParagraphs == {[i \in 1..n |-> i] : n \in 0..MaxParagraphs}

Range(f) == {f[i] : i \in DOMAIN f}

\* projects.filter(p => p.id !== id)
RECURSIVE FilterOut(_, _)
FilterOut(ps, id) ==
    IF ps = <<>> THEN <<>>
    ELSE IF Head(ps).id = id
         THEN FilterOut(Tail(ps), id)
         ELSE <<Head(ps)>> \o FilterOut(Tail(ps), id)

\* memories.filter((_, i) => i !== idx), idx counted from 1 here
RemoveAt(ms, idx) == SubSeq(ms, 1, idx - 1) \o SubSeq(ms, idx + 1, Len(ms))

\* persistence.setItem(`membrane_memories_${p}`, JSON.stringify(ms))
SetMemoriesItem(p, ms) ==
    [q \in DOMAIN memoriesItem \cup {p} |-> IF q = p THEN ms ELSE memoriesItem[q]]

\* projects[idx].memoryCount = n, for the project with id p when it is found
WithMemoryCount(ps, p, n) ==
    [i \in DOMAIN ps |-> IF ps[i].id = p THEN [ps[i] EXCEPT !.memoryCount = n] ELSE ps[i]]

StoreInit ==
    /\ projectsItem = <<>>
    /\ docItem = {}
    /\ memoriesItem = <<>>
    /\ route = "dashboard"
    /\ projects = <<>>
    /\ projectId = 0
    /\ memories = <<>>
    /\ addMemoryCall = NULL
    /\ autoStore = NULL
    /\ created = 0
    /\ deleting = 0
    /\ deleted = {}
    /\ autoStoreDone = NULL

\* loadProject: the workspace of project p is mounted and reads its items
LoadProject(p) ==
    /\ route' = "workspace"
    /\ projectId' = p
    /\ memories' = IF p \in DOMAIN memoriesItem /\ memoriesItem[p] # <<>>
                   THEN memoriesItem[p]
                   ELSE <<>>

\* createProject: the new project is put first, saved, and its workspace opened
CreateProject ==
    /\ route = "dashboard"
    /\ created < MaxProjects
    /\ created' = created + 1
    /\ LET newProject == [id |-> created', memoryCount |-> 0]
       IN /\ projectsItem' = <<newProject>> \o projects
          /\ projects' = <<newProject>> \o projects
    /\ LoadProject(created')
    /\ autoStoreDone' = NULL
    /\ UNCHANGED <<docItem, memoriesItem, addMemoryCall, autoStore, deleting, deleted>>
    /\ UNCHANGED <<streamVars, editorVars>>

\* the user follows the link of a project card of the dashboard
OpenProject(p) ==
    /\ route = "dashboard"
    /\ p \in {projects[i].id : i \in DOMAIN projects}
    /\ LoadProject(p)
    /\ autoStoreDone' = NULL
    /\ UNCHANGED <<projectsItem, docItem, memoriesItem, projects, addMemoryCall,
                   autoStore, created, deleting, deleted>>
    /\ UNCHANGED <<streamVars, editorVars>>

\* the user goes back to the dashboard, with no addMemory or saveDocument call
\* of the workspace in flight; loadProjects reads the stored list
BackToDashboard ==
    /\ route = "workspace"
    /\ addMemoryCall = NULL
    /\ autoStore = NULL
    /\ route' = "dashboard"
    /\ projects' = projectsItem
    /\ projectId' = 0
    /\ memories' = <<>>
    /\ autoStoreDone' = NULL
    /\ UNCHANGED <<projectsItem, docItem, memoriesItem, addMemoryCall, autoStore,
                   created, deleting, deleted>>
    /\ UNCHANGED <<streamVars, editorVars>>

\* addMemory up to its first await: the list is built from the memories of the
\* render `closure` was taken from, set as state and handed to setItem
AddMemoryBegin(memory, closure, caller) ==
    /\ route = "workspace"
    /\ addMemoryCall = NULL
    /\ Len(closure) < MaxMemories
    /\ LET updated == closure \o <<memory>>
       IN /\ memories' = updated
          /\ memoriesItem' = SetMemoriesItem(projectId, updated)
          /\ addMemoryCall' = Some([updated |-> updated, stage |-> "stored",
                                    projects |-> <<>>, caller |-> caller])

\* onAddMemory of the chat panel: addMemory of the current render
AddMemory(memory) ==
    /\ AddMemoryBegin(memory, memories, "user")
    /\ autoStoreDone' = NULL
    /\ UNCHANGED <<projectsItem, docItem, route, projects, projectId, autoStore,
                   created, deleting, deleted>>
    /\ UNCHANGED <<streamVars, editorVars>>

\* addMemory: the stored list of projects is read
AddMemoryReadsProjects ==
    /\ addMemoryCall # NULL
    /\ addMemoryCall[1].stage = "stored"
    /\ addMemoryCall' = Some([addMemoryCall[1] EXCEPT !.stage = "read",
                                                      !.projects = projectsItem])
    /\ autoStoreDone' = NULL
    /\ UNCHANGED <<projectsItem, docItem, memoriesItem, route, projects, projectId,
                   memories, autoStore, created, deleting, deleted>>
    /\ UNCHANGED <<streamVars, editorVars>>

\* addMemory: memoryCount of the project is set to updated.length in the list
\* read and the list is saved; the call returns, to the loop of saveDocument
\* when that called it, which ends when no paragraph is left
AddMemorySavesCount ==
    /\ addMemoryCall # NULL
    /\ addMemoryCall[1].stage = "read"
    /\ LET call == addMemoryCall[1]
           found == \E i \in DOMAIN call.projects : call.projects[i].id = projectId
       IN /\ projectsItem' = IF found
                             THEN WithMemoryCount(call.projects, projectId,
                                                  Len(call.updated))
                             ELSE projectsItem
          /\ IF call.caller = "saveDocument" /\ autoStore[1].left = <<>>
             THEN /\ autoStoreDone' = Some([before |-> autoStore[1].before,
                                            paragraphs |-> autoStore[1].paragraphs,
                                            removal |-> autoStore[1].removal])
                  /\ autoStore' = NULL
             ELSE /\ autoStoreDone' = NULL
                  /\ UNCHANGED autoStore
    /\ addMemoryCall' = NULL
    /\ UNCHANGED <<docItem, memoriesItem, route, projects, projectId, memories,
                   created, deleting, deleted>>
    /\ UNCHANGED <<streamVars, editorVars>>

\* onRemoveMemory: the memory at idx is filtered out, the list set as state and
\* handed to setItem
OnRemoveMemory(idx) ==
    /\ route = "workspace"
    /\ idx \in 1..Len(memories)
    /\ memories' = RemoveAt(memories, idx)
    /\ memoriesItem' = SetMemoriesItem(projectId, memories')
    /\ autoStore' = IF autoStore = NULL
                    THEN NULL
                    ELSE Some([autoStore[1] EXCEPT !.removal = TRUE])
    /\ autoStoreDone' = NULL
    /\ UNCHANGED <<projectsItem, docItem, route, projects, projectId, addMemoryCall,
                   created, deleting, deleted>>
    /\ UNCHANGED <<streamVars, editorVars>>

\* saveDocument up to its loop: the document is stored; when there are
\* paragraphs to auto-store, the loop starts, holding the addMemory of the
\* render saveDocument was taken from, and so that render's memories
\* (before, paragraphs, removal: history, what was stored when the loop
\* started, what it was given, whether a memory was removed while it ran)
SaveDocument(paragraphs) ==
    /\ route = "workspace"
    /\ autoStore = NULL
    /\ docItem' = docItem \cup {projectId}
    /\ autoStore' = IF paragraphs = <<>>
                    THEN NULL
                    ELSE Some([closure |-> memories,
                               before |-> memories,
                               paragraphs |-> paragraphs,
                               left |-> paragraphs,
                               removal |-> FALSE])
    /\ autoStoreDone' = NULL
    /\ UNCHANGED <<projectsItem, memoriesItem, route, projects, projectId, memories,
                   addMemoryCall, created, deleting, deleted>>
    /\ UNCHANGED <<streamVars, editorVars>>

\* one turn of the loop of saveDocument: await addMemory(para)
AutoStoreNext ==
    /\ autoStore # NULL
    /\ autoStore[1].left # <<>>
    /\ AddMemoryBegin(Head(autoStore[1].left), autoStore[1].closure, "saveDocument")
    /\ autoStore' = Some([autoStore[1] EXCEPT !.left = Tail(autoStore[1].left)])
    /\ autoStoreDone' = NULL
    /\ UNCHANGED <<projectsItem, docItem, route, projects, projectId, created,
                   deleting, deleted>>
    /\ UNCHANGED <<streamVars, editorVars>>

\* deleteProject, confirmed, up to its second await: saveProjects of the list
\* without the project
DeleteProject(id) ==
    /\ route = "dashboard"
    /\ deleting = 0
    /\ id \in {projects[i].id : i \in DOMAIN projects}
    /\ projectsItem' = FilterOut(projects, id)
    /\ projects' = FilterOut(projects, id)
    /\ deleting' = id
    /\ autoStoreDone' = NULL
    /\ UNCHANGED <<docItem, memoriesItem, route, projectId, memories, addMemoryCall,
                   autoStore, created, deleted>>
    /\ UNCHANGED <<streamVars, editorVars>>

\* deleteProject: persistence.removeItem(`membrane_doc_${id}`), and the call
\* returns
DeleteProjectRemovesDoc ==
    /\ deleting # 0
    /\ docItem' = docItem \ {deleting}
    /\ deleted' = deleted \cup {deleting}
    /\ deleting' = 0
    /\ autoStoreDone' = NULL
    /\ UNCHANGED <<projectsItem, memoriesItem, route, projects, projectId, memories,
                   addMemoryCall, autoStore, created>>
    /\ UNCHANGED <<streamVars, editorVars>>

StoreNext ==
    \/ CreateProject
    \/ \E p \in 1..MaxProjects : OpenProject(p)
    \/ BackToDashboard
    \/ \E memory \in MemoryTexts : AddMemory(memory)
    \/ AddMemoryReadsProjects
    \/ AddMemorySavesCount
    \/ \E idx \in 1..MaxMemories : OnRemoveMemory(idx)
    \/ \E paragraphs \in RecentParagraphs : SaveDocument(paragraphs)
    \/ AutoStoreNext
    \/ \E id \in 1..MaxProjects : DeleteProject(id)
    \/ DeleteProjectRemovesDoc

\* no stream is open in the editing session's specification
StreamIdle ==
    /\ frames = <<>>
    /\ wireAll = <<>>
    /\ wire = <<>>
    /\ response = "pending"
    /\ pc = "fetch"
    /\ lines = <<>>
    /\ emitted = <<>>
    /\ readerHeld = FALSE
    /\ transport = "readable"
    /\ exit = "none"
    /\ sawSentinel = FALSE
    /\ statusText = ""
    /\ thrown = <<>>
    /\ pulledEnded = FALSE

InitStream == StreamInit /\ EditorInit /\ StoreInit

InitEditor == EditorInit /\ StreamIdle /\ StoreInit

InitStore == StoreInit /\ EditorInit /\ StreamIdle

SpecStream == InitStream /\ [][StreamNext]_vars

SpecEditor == InitEditor /\ [][EditorNext]_vars

SpecStore == InitStore /\ [][StoreNext]_vars

\* some pending timeout reaches its delay and its callback runs
SomeTimerFires == \E id \in DOMAIN timers : TimerFires(id)

\* some outstanding call ends, with an answer or by throwing
SomeRequestSettles ==
    \E id \in DOMAIN requests : \E answer \in Suggestions : \E outcome \in Outcomes :
        /\ (outcome # "ok") => answer = NULL
        /\ RequestSettles(id, answer, outcome)

\* the texts of at most one character an input event can leave
ShortContents == {c \in Contents : Len(c) <= 1}

\* The steps of the session with the text of an input event drawn from
\* ShortContents: no step is enabled or disabled by what the text is, beyond
\* its differing from the text before the event.
EditorNextShort ==
    \/ \E newContent \in ShortContents : \E cur \in 0..Len(newContent) :
           HandleInput(newContent, cur)
    \/ SomeTimerFires
    \/ SomeRequestSettles
    \/ KeyTab
    \/ KeyEscape
    \/ \E b \in BOOLEAN : SetComposing(b)
    \/ \E c \in 0..Len(localContent) : MoveCursor(c)

\* The editing session with the scheduling the browser gives it: a timeout
\* that stays pending is run, and a fetch that stays outstanding resolves or
\* rejects.
SpecEditorFair ==
    /\ InitEditor
    /\ [][EditorNextShort]_vars
    /\ WF_vars(SomeTimerFires)
    /\ WF_vars(SomeRequestSettles)

(***************************************************************************)
(* Properties of streamChat.                                               *)
(***************************************************************************)
\* Every value the for loop yields over the lines `ls`, the loop resumed after
\* each yield until it returns or runs out of lines.
RECURSIVE Deltas(_)
Deltas(ls) ==
    LET r == ForLines(ls) IN
    IF r.kind = "yield" THEN <<r.value>> \o Deltas(r.rest) ELSE <<>>

\* What the stream yields when the whole wire text arrives as one chunk.
OneChunkDeltas(text) == Deltas(SplitLines(Decode(text)))

StreamEnded == pc = "done"

\* C1 (chunk-split invariance): when the stream has ended without an error, the
\* values yielded over the chunks the transport happened to deliver are exactly
\* the values the same wire text yields when it arrives as a single chunk.
C1_ChunkSplitInvariance ==
    StreamEnded => emitted = OneChunkDeltas(wireAll)

\* C4 (transport release): whenever the generator has exited after obtaining
\* the reader (end of input, sentinel, read error), the reader has been released
\* or the body stream is no longer open.
C4_ReaderReleasedOnExit ==
    (pc \in {"done", "error"} /\ response = "ok") =>
        (~readerHeld \/ transport # "readable")

\* C5 (sentinel termination): the step in which the for loop visits a sentinel
\* line yields nothing (no later line of that chunk is yielded), and once a
\* sentinel line has been visited no step of the stream adds a yielded value,
\* whatever chunks follow.
C5_SentinelTermination ==
    [][(sawSentinel \/ sawSentinel') => emitted' = emitted]_vars

\* C5 witness: the loop has visited the sentinel while a whole content frame is
\* still undelivered on the transport.
C5_Witness ==
    /\ sawSentinel
    /\ EndsWith(wire, FrameText("A"))

\* C10 (ordering): when the stream has ended without an error, the yielded
\* values, concatenated in the order they were yielded, are the text the server
\* generated.
C10_ConcatenationIsGeneratedText ==
    StreamEnded => Flatten(emitted) = GeneratedText(frames)

\* the lines the for loop is run over in the step being taken: those of the
\* chunk just read, or those left after the last yield
StepLines ==
    IF pc = "read"
    THEN CHOOSE ls \in {SplitLines(chunk) :
                            chunk \in {Decode(SubSeq(wire, 1, Len(wire) - Len(wire')))}} :
             TRUE
    ELSE lines

\* the step being taken runs the for loop (a chunk was read, or the consumer
\* pulled after a yield)
LoopStep == (pc = "read" /\ wire' # wire) \/ pc = "yielded"

\* a data line whose payload is not the sentinel and is not valid JSON
Malformed(line) ==
    /\ StartsWith(line, DataPrefix)
    /\ Slice(line, SliceFrom) # Sentinel
    /\ ~JSONParse(Slice(line, SliceFrom)).ok

NotMalformed(line) == ~Malformed(line)

WithoutMalformed(ls) == SelectSeq(ls, NotMalformed)

\* C11 (malformed-frame resilience): every run of the for loop over the lines
\* of a chunk ends as it would with the malformed data lines taken out of the
\* chunk: no error leaves the generator, the stream goes on, and the same value
\* is yielded with the same well-formed lines left to visit.
C11_MalformedFrameDropped ==
    [][LoopStep =>
          \A ls \in {StepLines} : \A r \in {ForLines(WithoutMalformed(ls))} :
              /\ pc' = (CASE r.kind = "yield" -> "yielded"
                          [] r.kind = "return" -> "done"
                          [] r.kind = "exhausted" -> "read")
              /\ emitted' = (IF r.kind = "yield" THEN Append(emitted, r.value)
                                                  ELSE emitted)
              /\ WithoutMalformed(lines') = (IF r.kind = "yield" THEN r.rest
                                                                 ELSE <<>>)]_vars

\* C11 witness: a stream of one invalid-JSON frame and one well-formed frame has
\* yielded exactly the content of the well-formed one and read on to the end.
C11_Witness ==
    /\ frames = <<"bad", "A">>
    /\ emitted = <<<<"A">>>>
    /\ wire = <<>>
    /\ pc = "read"

\* the transport reports end of input in the step being taken
EndOfInput == transport = "readable" /\ transport' = "closed"

\* C12 (truncation tolerance): end of input is reported only to a generator
\* that has not visited a sentinel and has no decoded line left to visit; the
\* step ends the sequence normally, not with an error, and leaves the values
\* yielded so far as they are.
C12_TruncationEndsNormally ==
    [][EndOfInput =>
          /\ ~sawSentinel
          /\ lines = <<>>
          /\ pc' = "done"
          /\ exit' = "eof"
          /\ emitted' = emitted]_vars

\* C12 witness: the transport ended after one content frame and no sentinel;
\* its content was yielded and the sequence ended normally.
C12_Witness ==
    /\ frames = <<"A">>
    /\ exit = "eof"
    /\ pc = "done"
    /\ emitted = <<<<"A">>>>
    /\ ~sawSentinel

\* a stream of well-formed content frames followed by the sentinel frame
ContentThenSentinel(fs) ==
    /\ Len(fs) >= 2
    /\ fs[Len(fs)] = "done"
    /\ \A i \in 1..(Len(fs) - 1) : fs[i] \in {"A", "E"}

\* the content of each content frame, one value a frame, in wire order
FrameContents(fs) ==
    [i \in 1..(Len(fs) - 1) |-> IF fs[i] = "A" THEN <<"A">> ELSE <<TwoByteChar>>]

\* C13 (end to end): when a stream of well-formed content frames followed by
\* the sentinel frame has ended without an error, the values yielded are the
\* contents of the content frames, once each and in order, and the sequence
\* was ended by the sentinel.
C13_EndToEnd ==
    (StreamEnded /\ ContentThenSentinel(frames)) =>
        /\ emitted = FrameContents(frames)
        /\ exit = "sentinel"

\* no chunk has been handed out by the reader and no value has been yielded
NothingRead ==
    /\ wire = wireAll
    /\ lines = <<>>
    /\ emitted = <<>>

\* C14 (non-success status): once fetch has resolved with a response whose
\* status is not a success, the generator has ended with an error whose message
\* carries the status text of the response, no reader was obtained, no chunk
\* was read from the body and no value was yielded.
C14_FailureStatusThrows ==
    (response = "failed") =>
        /\ pc = "error"
        /\ exit = "error"
        /\ thrown = <<"Stream error: ", statusText>>
        /\ ~readerHeld
        /\ NothingRead

\* C14 witness: a 401 response whose body holds a content frame; the error
\* carries 'Unauthorized' and the body is untouched.
C14_Witness ==
    /\ response = "failed"
    /\ statusText = "Unauthorized"
    /\ thrown = <<"Stream error: ", "Unauthorized">>
    /\ frames = <<"A">>
    /\ wire = wireAll

\* C15 (no readable body): once fetch has resolved with a successful response
\* that has no body, the generator has ended with the error 'No reader
\* available', no read was issued and no value was yielded.
C15_NoBodyThrows ==
    (response = "nobody") =>
        /\ pc = "error"
        /\ exit = "error"
        /\ thrown = <<"No reader available">>
        /\ ~readerHeld
        /\ NothingRead

\* C15 witness: a successful response without a body has made the generator
\* throw.
C15_Witness ==
    /\ response = "nobody"
    /\ statusText = "OK"
    /\ pc = "error"
    /\ thrown # <<>>

IsPrefix(s, t) ==
    /\ Len(s) <= Len(t)
    /\ SubSeq(t, 1, Len(s)) = s

\* a read on the transport fails in the step being taken
ReadFails == transport = "readable" /\ transport' = "errored"

\* C16 (read error): a failed read ends the generator with the error of the
\* read and leaves the yielded values as they are; a generator ended by an
\* error stays ended and yields nothing more; and every step only appends to
\* the yielded values, so what was yielded before the error is a prefix of what
\* the same run yields when the read does not fail.
C16_ReadErrorSurfaces ==
    [][/\ IsPrefix(emitted, emitted')
       /\ ReadFails =>
              /\ pc' = "error"
              /\ exit' = "error"
              /\ thrown' = ReadRejection
              /\ emitted' = emitted
       /\ (pc = "error") =>
              /\ pc' = "error"
              /\ emitted' = emitted
              /\ thrown' = thrown]_vars

\* C16 witness: a read failed after a chunk had been received and its content
\* yielded, with a content frame still undelivered.
C16_Witness ==
    /\ transport = "errored"
    /\ pc = "error"
    /\ thrown = ReadRejection
    /\ emitted = <<<<"A">>>>
    /\ EndsWith(wire, FrameText("A"))

\* C17 (no read after the sentinel): the step in which the for loop visits a
\* sentinel line ends the generator instead of awaiting another read, and from
\* then on the generator stays ended and no byte is taken from the transport.
C17_NoReadAfterSentinel ==
    [][/\ sawSentinel' => (pc' = "done" /\ exit' = "sentinel")
       /\ sawSentinel => wire' = wire]_vars

\* C17 witness: the sentinel was visited after a content frame while bytes are
\* still undelivered on an open transport.
C17_Witness ==
    /\ frames = <<"A", "done">>
    /\ sawSentinel
    /\ emitted = <<<<"A">>>>
    /\ wire # <<>>
    /\ transport = "readable"

\* a line that starts with 'data: '
DataLine(line) == StartsWith(line, DataPrefix)

DataLinesOf(ls) == SelectSeq(ls, DataLine)

\* C23 (other lines, empty chunk): every run of the for loop over the lines of
\* a chunk ends as it would over its data lines alone: the lines without the
\* prefix 'data: ' yield nothing and change nothing about the lines around
\* them; and the decoding of an empty chunk holds no data line.
C23_OtherLinesIgnored ==
    [][/\ DataLinesOf(SplitLines(Decode(<<>>))) = <<>>
       /\ LoopStep =>
              \A ls \in {StepLines} : \A r \in {ForLines(DataLinesOf(ls))} :
                  /\ pc' = (CASE r.kind = "yield" -> "yielded"
                              [] r.kind = "return" -> "done"
                              [] r.kind = "exhausted" -> "read")
                  /\ emitted' = (IF r.kind = "yield" THEN Append(emitted, r.value)
                                                      ELSE emitted)
                  /\ DataLinesOf(lines') = (IF r.kind = "yield" THEN r.rest
                                                                ELSE <<>>)]_vars

\* C23 witness: a stream of a comment line and a content frame has yielded the
\* content of the frame and read on to the end.
C23_Witness ==
    /\ frames = <<"comment", "A">>
    /\ emitted = <<<<"A">>>>
    /\ wire = <<>>
    /\ pc = "read"

\* a data line whose payload is valid JSON with no usable content: the member
\* is absent, or is the empty string
NoContent(line) ==
    /\ StartsWith(line, DataPrefix)
    /\ Slice(line, SliceFrom) # Sentinel
    /\ JSONParse(Slice(line, SliceFrom)).ok
    /\ JSONParse(Slice(line, SliceFrom)).content = <<>>

HasContentOrOther(line) == ~NoContent(line)

WithoutNoContent(ls) == SelectSeq(ls, HasContentOrOther)

\* C24 (no usable content): every run of the for loop over the lines of a
\* chunk ends as it would with the data lines of valid JSON without usable
\* content taken out: such a line yields nothing, raises no error and does not
\* end the stream.
C24_NoContentDropped ==
    [][LoopStep =>
          \A ls \in {StepLines} : \A r \in {ForLines(WithoutNoContent(ls))} :
              /\ pc' = (CASE r.kind = "yield" -> "yielded"
                          [] r.kind = "return" -> "done"
                          [] r.kind = "exhausted" -> "read")
              /\ emitted' = (IF r.kind = "yield" THEN Append(emitted, r.value)
                                                  ELSE emitted)
              /\ WithoutNoContent(lines') = (IF r.kind = "yield" THEN r.rest
                                                                 ELSE <<>>)]_vars

\* C24 witness: a stream of a frame with an empty content and a frame with
\* content has yielded the second alone and read on to the end; so has a
\* stream whose first frame has no content member.
C24_Witness ==
    /\ frames \in {<<"empty", "A">>, <<"nocontent", "A">>}
    /\ emitted = <<<<"A">>>>
    /\ wire = <<>>
    /\ pc = "read"

\* C25 (single pass): once the generator has ended, by end of input, by the
\* sentinel or by an error, every step leaves it ended the same way: no value
\* is yielded, no byte is taken from the transport and no request is issued.
C25_EndedStaysEnded ==
    [][(pc \in {"done", "error"}) =>
          /\ pc' = pc
          /\ exit' = exit
          /\ thrown' = thrown
          /\ emitted' = emitted
          /\ lines' = lines
          /\ wire' = wire
          /\ response' = response]_vars

\* C25 witness: the generator was pulled after it had ended at the sentinel
\* with a value yielded and bytes still undelivered; and it was pulled after
\* it had ended by a read error.
C25_Witness ==
    /\ pulledEnded
    /\ \/ /\ exit = "sentinel"
          /\ emitted # <<>>
          /\ wire # <<>>
       \/ /\ exit = "error"
          /\ thrown = ReadRejection
          /\ wire # <<>>

(***************************************************************************)
(* Properties of DocumentEditor.                                           *)
(***************************************************************************)
\* the request `id` settles in the step being taken
Settles(id) == id \in DOMAIN requests /\ id \notin DOMAIN requests'

\* the step being taken sets the displayed suggestion
Applies == ghostSuggestion' # NULL /\ ghostSuggestion' # ghostSuggestion

\* C2 (staleness drop): when a request settles after a newer input event has
\* left the textarea with a text other than the one the request was issued
\* for, the displayed suggestion is left as it was.
C2_StalenessDrop ==
    [][\A id \in DOMAIN requests :
          (Settles(id) /\ id < inputs /\ requests[id].text # localContent) =>
              ghostSuggestion' = ghostSuggestion]_vars

\* C3 as stated (debounce collapse): every input event leaves exactly one
\* pending timer, and the call a firing timer issues carries the text and the
\* caret position of the input event that set the timer.
C3_OneCallWithInputOfLastEvent ==
    [][/\ (inputs' # inputs) => Cardinality(DOMAIN timers') = 1
       /\ (calls' # calls) =>
              \E id \in DOMAIN timers \ DOMAIN timers' :
                  /\ id \in DOMAIN requests'
                  /\ requests'[id] = [text |-> timers[id].newContent,
                                      cursorPosition |-> timers[id].cursorAtInput]]_vars

\* C3 as amended: an input event outside composition leaves exactly one pending
\* timer, the one it set, holding its text; an input event during composition
\* leaves none; no other step sets or changes a timer; and a network call is
\* issued only by the firing of the timer of the newest input event, once,
\* with that text and the caret position read at the firing, leaving no timer.
C3_DebounceCollapse ==
    [][/\ (inputs' # inputs) =>
              IF isComposing
              THEN DOMAIN timers' = {}
              ELSE /\ DOMAIN timers' = {inputs'}
                   /\ timers'[inputs'].newContent = localContent'
       /\ (inputs' = inputs) =>
              /\ DOMAIN timers' \subseteq DOMAIN timers
              /\ \A t \in DOMAIN timers' : timers'[t] = timers[t]
       /\ (calls' # calls) =>
              /\ calls' = calls + 1
              /\ inputs \in DOMAIN timers
              /\ inputs \notin DOMAIN requests
              /\ DOMAIN requests' = DOMAIN requests \cup {inputs}
              /\ requests'[inputs] = [text |-> timers[inputs].newContent,
                                      cursorPosition |-> cursor]
              /\ DOMAIN timers' = {}
       /\ (calls' = calls) => DOMAIN requests' \subseteq DOMAIN requests]_vars

\* C3 witness: two input events, the second before the timer of the first
\* fired, and one network call, carrying the text of the second.
C3_Witness ==
    /\ inputs = 2
    /\ calls = 1
    /\ DOMAIN requests = {2}
    /\ requests[2].text = localContent
    /\ localContent # <<>>
    /\ DOMAIN timers = {}

\* C6 (apply-only-if-current): a settling request sets the displayed suggestion
\* only if the text and caret position it was issued with are the text and the
\* caret position of the textarea at that moment.
C6_ApplyOnlyIfCurrent ==
    [][\A id \in DOMAIN requests :
          (Settles(id) /\ Applies) =>
              /\ requests[id].text = localContent
              /\ requests[id].cursorPosition = cursor]_vars

\* C7 (explicit cancellation): after Escape or an accepting Tab, and until the
\* next input event, no suggestion is displayed.
C7_NoSuggestionAfterCancel ==
    cancelled => ghostSuggestion = NULL

\* C8 (newest input only): a pending timer is the one set by the newest input
\* event, and a settling request sets the displayed suggestion only if it was
\* issued for the newest input event.
C8_OnlyNewestInputApplies ==
    [][/\ \A t \in DOMAIN timers' : t = inputs'
       /\ \A id \in DOMAIN requests : (Settles(id) /\ Applies) => id = inputs]_vars

\* C9 (single outstanding): at most one debounce timer is pending and at most
\* one suggestion request is awaiting its answer.
C9_AtMostOneTimerAndRequest ==
    /\ Cardinality(DOMAIN timers) <= 1
    /\ Cardinality(DOMAIN requests) <= 1

\* C18 (fire-time capture): a step that issues a network call is the firing of
\* a pending timer, issues exactly one call, and the call carries the text and
\* the caret position the textarea has at that moment.
C18_CallCarriesEditorAtFireTime ==
    [][(calls' # calls) =>
          /\ calls' = calls + 1
          /\ \E id \in DOMAIN timers :
                 /\ DOMAIN timers' = DOMAIN timers \ {id}
                 /\ DOMAIN requests' = DOMAIN requests \cup {id}
                 /\ requests'[id] = [text |-> localContent, cursorPosition |-> cursor]]_vars

\* an answer that is absent, empty or made of white space only
Blank(answer) ==
    \/ answer = NULL
    \/ \A i \in 1..Len(answer[1]) : answer[1][i] \in Whitespace

\* C19 (unusable answer): a call that settles with an absent, empty or
\* all-whitespace suggestion leaves the displayed suggestion as it was, and the
\* displayed suggestion never has an empty or all-whitespace text.
C19_BlankAnswerNotDisplayed ==
    [][/\ (/\ delivered' # <<>>
           /\ delivered'[1].outcome = "ok"
           /\ Blank(delivered'[1].answer)) => ghostSuggestion' = ghostSuggestion
       /\ (ghostSuggestion' # NULL) => ~Blank(Some(ghostSuggestion'[1].text))]_vars

\* C19 witness: the call for the one input event, the caret at the end of its
\* text, was answered with a blank suggestion and nothing is displayed.
C19_Witness ==
    /\ delivered = Some([answer |-> Some(<<" ">>), outcome |-> "ok"])
    /\ inputs = 1
    /\ calls = 1
    /\ localContent # <<>>
    /\ cursor = Len(localContent)
    /\ ghostSuggestion = NULL

\* C20 (failed call): a call that settles by throwing (fetch rejected, status
\* not a success, body not JSON) is logged, leaves the displayed suggestion and
\* the text as they were, is no longer outstanding, sets no timer and issues no
\* call; and a call is only ever issued by the firing of a pending timer.
C20_FailedCallIsDropped ==
    [][/\ (delivered' # <<>> /\ delivered'[1].outcome # "ok") =>
              /\ reported' # <<>>
              /\ ghostSuggestion' = ghostSuggestion
              /\ localContent' = localContent
              /\ calls' = calls
              /\ timers' = timers
              /\ \E id \in DOMAIN requests :
                     requests' = [r \in DOMAIN requests \ {id} |-> requests[r]]
       /\ (calls' # calls) =>
              \E id \in DOMAIN timers : id \notin DOMAIN timers']_vars

\* C20 witness: the one call issued was answered with a status that is not a
\* success; the error was logged, nothing is displayed, nothing is pending.
C20_Witness ==
    /\ delivered = Some([answer |-> NULL, outcome |-> "status"])
    /\ reported # <<>>
    /\ calls = 1
    /\ DOMAIN requests = {}
    /\ DOMAIN timers = {}
    /\ ghostSuggestion = NULL

\* a timer is pending or a call is outstanding
Busy == DOMAIN timers # {} \/ DOMAIN requests # {}

\* C22 (liveness): whenever a debounce timer is pending or a suggestion call is
\* outstanding, the session later reaches a state with neither: every input
\* event is followed by its call being answered (applied or not) or by its
\* timer being dropped.
C22_EventuallySettled == Busy ~> ~Busy

\* C22 witness: after three steps of input, firing and answer, a second input
\* event has its call outstanding while the call of the first is settled.
C22_Witness ==
    /\ inputs = 2
    /\ calls = 2
    /\ DOMAIN requests = {2}
    /\ DOMAIN timers = {}

\* the scheduler's state: a timer is pending (Debouncing), or else a call is
\* outstanding (Requesting), or else neither (Idle)
Phase ==
    IF DOMAIN timers # {} THEN "Debouncing"
    ELSE IF DOMAIN requests # {} THEN "Requesting"
    ELSE "Idle"

\* C21 (scheduler transitions): an input event leads to Debouncing (to Idle
\* during composition); apart from input events and Tab or Escape, the state
\* changes only from Debouncing to Requesting, by a timer firing that issues
\* the call, and from Requesting to Idle, by the call settling; a call is
\* issued only from Debouncing, and a call settles, and its suggestion is
\* applied, only from Requesting.
C21_SchedulerTransitions ==
    [][/\ (inputs' # inputs) => Phase' \in {"Debouncing", "Idle"}
       /\ (inputs' = inputs /\ key' = "" /\ Phase' # Phase) =>
              <<Phase, Phase'>> \in {<<"Debouncing", "Requesting">>,
                                     <<"Requesting", "Idle">>}
       /\ (calls' # calls) => <<Phase, Phase'>> = <<"Debouncing", "Requesting">>
       /\ (delivered' # <<>>) => Phase = "Requesting"
       /\ Applies => (delivered' # <<>> /\ Phase = "Requesting")]_vars

\* C27 (suggestion is for the live content): a displayed suggestion's position
\* is the length of the text of the textarea.
C27_SuggestionAtEndOfContent ==
    ghostSuggestion # NULL => ghostSuggestion[1].position = Len(localContent)

\* C28 (input clears the suggestion): an input event leaves no suggestion
\* displayed, and a suggestion comes to be displayed only by the settling of a
\* call issued after the newest input event.
C28_ClearedUntilNewerResponse ==
    [][/\ (inputs' # inputs) => ghostSuggestion' = NULL
       /\ (ghostSuggestion = NULL /\ ghostSuggestion' # NULL) =>
              \E id \in DOMAIN requests : Settles(id) /\ ~(id < inputs)]_vars

\* C29 (composition): an input event during a composition leaves no timer
\* pending, sets none and issues no call; the start and the end of a
\* composition leave timers, calls and requests as they were; a timer is only
\* ever set by an input event outside composition, and a call is only ever
\* issued for a timer that was pending.
C29_ComposingInputSchedulesNothing ==
    [][/\ (inputs' # inputs /\ isComposing) =>
              /\ DOMAIN timers' = {}
              /\ ghostTimeoutRef' = ghostTimeoutRef
              /\ calls' = calls
              /\ requests' = requests
       /\ (isComposing' # isComposing) =>
              /\ timers' = timers
              /\ calls' = calls
              /\ requests' = requests
       /\ \A t \in DOMAIN timers' \ DOMAIN timers :
              inputs' # inputs /\ ~isComposing /\ t = inputs'
       /\ \A id \in DOMAIN requests' \ DOMAIN requests : id \in DOMAIN timers]_vars

\* C29 witness: the second input event came during a composition and cleared
\* the timer of the first, which had not fired; the composition has ended and
\* nothing is pending, no call was issued.
C29_Witness ==
    /\ inputs = 2
    /\ ghostTimeoutRef = 1
    /\ calls = 0
    /\ DOMAIN timers = {}
    /\ DOMAIN requests = {}
    /\ ~isComposing

\* C30 (Tab and Escape): Tab with a suggestion displayed sets the text to the
\* old text followed by the suggestion's text, passes that text to onChange
\* and clears the suggestion; Tab or Escape with no suggestion displayed leaves
\* the text, the suggestion, the pending timer and what onChange was last
\* given as they were.
C30_TabAcceptsEscapeFrames ==
    [][/\ (key' = "Tab" /\ ghostSuggestion # NULL) =>
              /\ localContent' = localContent \o ghostSuggestion[1].text
              /\ onChange' = localContent'
              /\ ghostSuggestion' = NULL
       /\ (key' \in {"Tab", "Escape"} /\ ghostSuggestion = NULL) =>
              /\ localContent' = localContent
              /\ onChange' = onChange
              /\ ghostSuggestion' = NULL
              /\ timers' = timers
              /\ ghostTimeoutRef' = ghostTimeoutRef]_vars

\* C30 witness: Tab was the last key, the text ends with the accepted
\* suggestion's text and was passed to onChange, no suggestion is displayed.
C30_Witness ==
    /\ key = "Tab"
    /\ localContent # <<>>
    /\ localContent[Len(localContent)] = "x"
    /\ onChange = localContent
    /\ ghostSuggestion = NULL
    /\ cancelled

\* C31 (calls and firings): the number of network calls never exceeds the
\* number of timeout callbacks run; a step issues a call exactly when it runs a
\* timeout callback, and then it issues one; and a call that settles by
\* throwing is given up: it is no longer outstanding and no call is issued.
C31_OneCallPerFiring ==
    [][/\ calls' <= fired'
       /\ (fired' # fired) => (fired' = fired + 1 /\ calls' = calls + 1)
       /\ (calls' # calls) => (fired' = fired + 1 /\ calls' = calls + 1)
       /\ (delivered' # <<>> /\ delivered'[1].outcome # "ok") =>
              /\ calls' = calls
              /\ fired' = fired
              /\ Cardinality(DOMAIN requests') = Cardinality(DOMAIN requests) - 1
              /\ DOMAIN requests' \subseteq DOMAIN requests]_vars

\* C31 witness: two timeout callbacks have run and issued two calls; the
\* latest step was a call failing on the network, and none is outstanding.
C31_Witness ==
    /\ fired = 2
    /\ calls = 2
    /\ delivered # <<>>
    /\ delivered[1].outcome = "network"
    /\ DOMAIN requests = {}

(***************************************************************************)
(* Properties of EditorWorkspace and Dashboard.                            *)
(***************************************************************************)
\* the list persisted for project p, empty when there is no item
StoredMemories(p) == IF p \in DOMAIN memoriesItem THEN memoriesItem[p] ELSE <<>>

\* C32 (no lost update in auto-store): when the loop of saveDocument has
\* stored its paragraphs, and no memory was removed meanwhile, the persisted
\* list of the project holds every memory stored before the loop and every
\* paragraph the loop was given.
C32_AutoStoreKeepsEverything ==
    (autoStoreDone # NULL /\ ~autoStoreDone[1].removal) =>
        \A t \in Range(autoStoreDone[1].before) \cup Range(autoStoreDone[1].paragraphs) :
            t \in Range(StoredMemories(projectId))

\* C33 (memoryCount): with no addMemory call in flight, the memoryCount of
\* every stored project is the length of its persisted list of memories.
C33_MemoryCountIsLength ==
    (addMemoryCall = NULL /\ autoStore = NULL) =>
        \A i \in DOMAIN projectsItem :
            projectsItem[i].memoryCount = Len(StoredMemories(projectsItem[i].id))

\* C34 (deleteProject): the step that completes deleteProject(id) leaves id out
\* of the stored list of projects, with no document item and no memories item
\* of id, and the two steps of the call leave the items of every other
\* project as they were.
C34_DeleteRemovesEverything ==
    [][/\ (deleting' # deleting /\ deleting' # 0) =>
              /\ projectsItem' = FilterOut(projectsItem, deleting')
              /\ docItem' = docItem
              /\ memoriesItem' = memoriesItem
       /\ \A id \in deleted' \ deleted :
              /\ \A i \in DOMAIN projectsItem' : projectsItem'[i].id # id
              /\ id \notin docItem'
              /\ id \notin DOMAIN memoriesItem'
              /\ projectsItem' = projectsItem
              /\ docItem' \ {id} = docItem \ {id}
              /\ \A q \in DOMAIN memoriesItem \ {id} :
                     q \in DOMAIN memoriesItem' /\ memoriesItem'[q] = memoriesItem[q]]_vars

====
